---------------------------- MODULE Spec2Model ----------------------------
(***************************************************************************)
(* Phaser.Text (src/src/gameobjects/Text.js) and Phaser.Events             *)
(* (src/src/gameobjects/Events.js) as state machines.                      *)
(*                                                                         *)
(* A Text object is a record holding the fields the constructor assigns,   *)
(* the fields it inherits from the rendering base type (position,          *)
(* rotation, canvas, context) and the calls it makes on its collaborators  *)
(* (setText, setStyle, group.remove, parentNode.removeChild), recorded the *)
(* way a mock records them.  Every method is an operator from the record   *)
(* before the call to the record after it.                                 *)
(***************************************************************************)
EXTENDS Integers, Sequences, FiniteSets, TLC

VARIABLES nodes,   \* node id -> the Text object
          hist,    \* node id -> what the environment has done to the node so far
          op,      \* the operation that ran last
          hub,     \* the Events object
          hubOp    \* the Events operation that ran last

vars == <<nodes, hist, op, hub, hubOp>>

----------------------------------------------------------------------------
(* Bounds of the model *)

MaxCoord == 1
MaxCalls == 2
MaxDestroys == 2
MaxHubDestroys == 5

NodeIds == {1}
Coords == 0..MaxCoord
Texts == {"", "hi", "bye"}
Angles == {0, 90}
Groups == {"g1"}
Owners == {"ownerX", "ownerY"}

Null == "null"

----------------------------------------------------------------------------
(* JavaScript values and operators *)

\* An argument that may have been omitted (undefined).
NumArgs == {[def |-> FALSE, v |-> 0]} \cup {[def |-> TRUE, v |-> c] : c \in Coords}
StrArgs == {[def |-> FALSE, v |-> ""]} \cup {[def |-> TRUE, v |-> s] : s \in Texts}

\* Style descriptors.  ref = 0 is a primitive (compared by value), ref > 0 is
\* an object reference (compared by identity); objects 1 and 2 are distinct
\* objects with the same contents.
StyleHeap == <<"bold 20px", "bold 20px", "italic 12px">>
StyleObjects == {[ref |-> r, val |-> StyleHeap[r]] : r \in 1..Len(StyleHeap)}
EmptyString == [ref |-> 0, val |-> ""]
UndefinedStyle == [ref |-> 0, val |-> "undefined"]
StyleValues == StyleObjects \cup {EmptyString}
StyleArgs == StyleValues \cup {UndefinedStyle}

\* a || d on numbers, strings and style descriptors: 0, '' and undefined are falsy.
OrNum(a, d) == IF a.def /\ a.v # 0 THEN a.v ELSE d
OrStr(a, d) == IF a.def /\ a.v # "" THEN a.v ELSE d
OrStyle(a, d) == IF a.ref # 0 THEN a ELSE d

\* a !== b
StrictNeqStr(a, b) == a # b
StrictNeqStyle(a, b) == IF a.ref = 0 /\ b.ref = 0 THEN a.val # b.val ELSE a.ref # b.ref

\* Equality of contents, which is not what !== decides on objects.
SameStyleValue(a, b) == a.val = b.val

Point(px, py) == [x |-> px, y |-> py]

\* Phaser.Math.degToRad / radToDeg, in microradians.
MicroPi == 3141593
degToRad(d) == (d * MicroPi) \div 180
radToDeg(r) == (r * 180 + (MicroPi \div 2)) \div MicroPi

----------------------------------------------------------------------------
(* Phaser.Text *)

\* The constructor as it would be without the assignments of x and y to the
\* cache that follow the cache literal.
Text_keepsCacheSeed(game, ax, ay, atext, astyle) ==
    LET x == OrNum(ax, 0)
        y == OrNum(ay, 0)
        text == OrStr(atext, "")
        style == OrStyle(astyle, EmptyString)
    IN [ game |-> game,
         exists |-> TRUE,
         alive |-> TRUE,
         group |-> Null,
         name |-> "",
         _text |-> text,
         _style |-> style,
         surfaceText |-> text,
         surfaceStyle |-> style,
         canvas |-> "canvas",
         canvasParent |-> Null,
         context |-> "context",
         rotation |-> 0,
         position |-> Point(x, y),
         x |-> x,
         y |-> y,
         anchor |-> Point(0, 0),
         scale |-> Point(1, 1),
         _cache |-> [ dirty |-> FALSE,
                      a00 |-> 1, a01 |-> 0, a02 |-> x,
                      a10 |-> 0, a11 |-> 1, a12 |-> y,
                      id |-> 1,
                      x |-> -1, y |-> -1,
                      scaleX |-> 1, scaleY |-> 1 ],
         renderable |-> TRUE,
         setTextCalls |-> 0,
         setStyleCalls |-> 0,
         removeCalls |-> << >>,
         removeChildCalls |-> 0 ]

\* The constructor: new Phaser.Text(game, x, y, text, style).
Text(game, ax, ay, atext, astyle) ==
    LET x == OrNum(ax, 0)
        y == OrNum(ay, 0)
        text == OrStr(atext, "")
        style == OrStyle(astyle, EmptyString)
    IN [ game |-> game,
         exists |-> TRUE,
         alive |-> TRUE,
         group |-> Null,
         name |-> "",
         _text |-> text,
         _style |-> style,
         \* PIXI.Text.call(this, text, style): the rendering surface
         surfaceText |-> text,
         surfaceStyle |-> style,
         canvas |-> "canvas",
         canvasParent |-> Null,
         context |-> "context",
         rotation |-> 0,
         position |-> Point(x, y),
         x |-> x,
         y |-> y,
         anchor |-> Point(0, 0),
         scale |-> Point(1, 1),
         _cache |-> [ dirty |-> FALSE,
                      a00 |-> 1, a01 |-> 0, a02 |-> x,
                      a10 |-> 0, a11 |-> 1, a12 |-> y,
                      id |-> 1,
                      x |-> x, y |-> y,
                      scaleX |-> 1, scaleY |-> 1 ],
         renderable |-> TRUE,
         \* calls made on the collaborators since construction
         setTextCalls |-> 0,
         setStyleCalls |-> 0,
         removeCalls |-> << >>,
         removeChildCalls |-> 0 ]

\* update() as it would be if it compared position with the values the cache
\* held before the call.
update_comparesPreviousCache(t) ==
    IF ~t.exists
    THEN t
    ELSE LET c == [t._cache EXCEPT !.dirty = FALSE, !.x = t.x, !.y = t.y]
         IN IF t.position.x # t._cache.x \/ t.position.y # t._cache.y
            THEN [t EXCEPT !.position = Point(c.x, c.y),
                           !._cache = [c EXCEPT !.dirty = TRUE]]
            ELSE [t EXCEPT !._cache = c]

\* update() as it would be if it took the snapshot from position.
update_snapshotsPosition(t) ==
    IF ~t.exists
    THEN t
    ELSE LET c == [t._cache EXCEPT !.dirty = FALSE,
                                   !.x = t.position.x, !.y = t.position.y]
         IN IF t.x # c.x \/ t.y # c.y
            THEN [t EXCEPT !.x = c.x, !.y = c.y,
                           !._cache = [c EXCEPT !.dirty = TRUE]]
            ELSE [t EXCEPT !._cache = c]

\* update() without the exists check.
update_ignoresExists(t) ==
    LET c == [t._cache EXCEPT !.dirty = FALSE, !.x = t.x, !.y = t.y]
    IN IF t.position.x # c.x \/ t.position.y # c.y
       THEN [t EXCEPT !.position = Point(c.x, c.y),
                      !._cache = [c EXCEPT !.dirty = TRUE]]
       ELSE [t EXCEPT !._cache = c]

\* update() without the reset of dirty.
update_keepsDirty(t) ==
    IF ~t.exists
    THEN t
    ELSE LET c == [t._cache EXCEPT !.x = t.x, !.y = t.y]
         IN IF t.position.x # c.x \/ t.position.y # c.y
            THEN [t EXCEPT !.position = Point(c.x, c.y),
                           !._cache = [c EXCEPT !.dirty = TRUE]]
            ELSE [t EXCEPT !._cache = c]

\* update() as it would be if it also moved the translation of the cached
\* transform.
update_recomputesTransform(t) ==
    IF ~t.exists
    THEN t
    ELSE LET c == [t._cache EXCEPT !.dirty = FALSE, !.x = t.x, !.y = t.y,
                                   !.a02 = t.x, !.a12 = t.y]
         IN IF t.position.x # c.x \/ t.position.y # c.y
            THEN [t EXCEPT !.position = Point(c.x, c.y),
                           !._cache = [c EXCEPT !.dirty = TRUE]]
            ELSE [t EXCEPT !._cache = c]

\* update() without the write of the cache values back into position.
update_keepsPosition(t) ==
    IF ~t.exists
    THEN t
    ELSE LET c == [t._cache EXCEPT !.dirty = FALSE, !.x = t.x, !.y = t.y]
         IN IF t.position.x # c.x \/ t.position.y # c.y
            THEN [t EXCEPT !._cache = [c EXCEPT !.dirty = TRUE]]
            ELSE [t EXCEPT !._cache = c]

\* Phaser.Text.prototype.update
update(t) ==
    IF ~t.exists
    THEN t
    ELSE LET c == [t._cache EXCEPT !.dirty = FALSE, !.x = t.x, !.y = t.y]
         IN IF t.position.x # c.x \/ t.position.y # c.y
            THEN [t EXCEPT !.position = Point(c.x, c.y),
                           !._cache = [c EXCEPT !.dirty = TRUE]]
            ELSE [t EXCEPT !._cache = c]

\* destroy() as it would be if it cleared exists before detaching from the
\* group.
destroy_clearsFirst(t) ==
    LET s0 == [t EXCEPT !.exists = FALSE]
        s1 == IF s0.group # Null
              THEN [s0 EXCEPT !.removeCalls =
                        Append(@, [receiver |-> s0.group,
                                   exists |-> s0.exists,
                                   group |-> s0.group])]
              ELSE s0
    IN IF s1.canvas = Null
       THEN [node |-> s1, threw |-> TRUE]
       ELSE LET s2 == IF s1.canvasParent # Null
                      THEN [s1 EXCEPT !.canvasParent = Null,
                                      !.removeChildCalls = @ + 1]
                      ELSE [s1 EXCEPT !.canvas = Null, !.context = Null]
            IN [node |-> [s2 EXCEPT !.group = Null], threw |-> FALSE]

\* destroy() as it would be if it released the canvas whether or not it has
\* a parent.
destroy_alwaysReleases(t) ==
    LET s1 == IF t.group # Null
              THEN [t EXCEPT !.removeCalls =
                        Append(@, [receiver |-> t.group,
                                   exists |-> t.exists,
                                   group |-> t.group])]
              ELSE t
    IN IF s1.canvas = Null
       THEN [node |-> s1, threw |-> TRUE]
       ELSE LET s2 == IF s1.canvasParent # Null
                      THEN [s1 EXCEPT !.canvasParent = Null,
                                      !.removeChildCalls = @ + 1,
                                      !.canvas = Null, !.context = Null]
                      ELSE [s1 EXCEPT !.canvas = Null, !.context = Null]
            IN [node |-> [s2 EXCEPT !.exists = FALSE, !.group = Null],
                threw |-> FALSE]

\* destroy() as it would be if it checked the canvas before reading its
\* parentNode.
destroy_guardsCanvas(t) ==
    LET s1 == IF t.group # Null
              THEN [t EXCEPT !.removeCalls =
                        Append(@, [receiver |-> t.group,
                                   exists |-> t.exists,
                                   group |-> t.group])]
              ELSE t
        s2 == IF s1.canvas # Null /\ s1.canvasParent # Null
              THEN [s1 EXCEPT !.canvasParent = Null,
                              !.removeChildCalls = @ + 1]
              ELSE [s1 EXCEPT !.canvas = Null, !.context = Null]
    IN [node |-> [s2 EXCEPT !.exists = FALSE, !.group = Null],
        threw |-> FALSE]

\* destroy() without the clearing of exists.
destroy_keepsExists(t) ==
    LET s1 == IF t.group # Null
              THEN [t EXCEPT !.removeCalls =
                        Append(@, [receiver |-> t.group,
                                   exists |-> t.exists,
                                   group |-> t.group])]
              ELSE t
    IN IF s1.canvas = Null
       THEN [node |-> s1, threw |-> TRUE]
       ELSE LET s2 == IF s1.canvasParent # Null
                      THEN [s1 EXCEPT !.canvasParent = Null,
                                      !.removeChildCalls = @ + 1]
                      ELSE [s1 EXCEPT !.canvas = Null, !.context = Null]
            IN [node |-> [s2 EXCEPT !.group = Null], threw |-> FALSE]

\* Phaser.Text.prototype.destroy.  The result says whether the call threw
\* (this.canvas is null when its parentNode is read) and the object as the
\* call left it.
destroy(t) ==
    LET s1 == IF t.group # Null
              THEN [t EXCEPT !.removeCalls =
                        Append(@, [receiver |-> t.group,
                                   exists |-> t.exists,
                                   group |-> t.group])]
              ELSE t
    IN IF s1.canvas = Null
       THEN [node |-> s1, threw |-> TRUE]
       ELSE LET s2 == IF s1.canvasParent # Null
                      THEN [s1 EXCEPT !.canvasParent = Null,
                                      !.removeChildCalls = @ + 1]
                      ELSE [s1 EXCEPT !.canvas = Null, !.context = Null]
            IN [node |-> [s2 EXCEPT !.exists = FALSE, !.group = Null],
                threw |-> FALSE]

\* angle
getAngle(t) == radToDeg(t.rotation)
setAngle(t, value) == [t EXCEPT !.rotation = degToRad(value)]

\* The content setter without the call of setText.
setContent_forgetsSetText(t, value) ==
    IF StrictNeqStr(value, t._text)
    THEN [t EXCEPT !._text = value]
    ELSE t

\* The content setter without the comparison.
setContent_always(t, value) ==
    [t EXCEPT !._text = value,
              !.surfaceText = value,
              !.setTextCalls = @ + 1]

\* content
getContent(t) == t._text
setContent(t, value) ==
    IF StrictNeqStr(value, t._text)
    THEN [t EXCEPT !._text = value,
                   !.surfaceText = value,
                   !.setTextCalls = @ + 1]
    ELSE t

\* font
getFont(t) == t._style
setFont(t, value) ==
    IF StrictNeqStyle(value, t._style)
    THEN [t EXCEPT !._style = value,
                   !.surfaceStyle = value,
                   !.setStyleCalls = @ + 1]
    ELSE t

----------------------------------------------------------------------------
(* Phaser.Events *)

FixedSignals == <<"onAddedToGroup", "onRemovedFromGroup", "onKilled",
                  "onRevived", "onOutOfBounds">>
InputSignals == <<"onInputOver", "onInputOut", "onInputDown", "onInputUp",
                  "onDragStart", "onDragStop">>
AnimationSignals == <<"onAnimationStart", "onAnimationComplete", "onAnimationLoop">>

Range(seq) == {seq[i] : i \in 1..Len(seq)}
SignalNames == Range(FixedSignals) \cup Range(InputSignals) \cup Range(AnimationSignals)

Signal == "signal"

\* The constructor as it would be if it created one input signal eagerly.
Events_createsInputOut(sprite) ==
    [ parent |-> sprite,
      sig |-> [s \in SignalNames |->
                  IF s \in Range(FixedSignals) \cup {"onInputOut"}
                  THEN Signal ELSE Null],
      disposeCount |-> [s \in SignalNames |-> 0],
      disposeLog |-> << >> ]

\* The constructor: new Phaser.Events(sprite).  sig holds the fourteen signal
\* fields; disposeCount and disposeLog record the dispose() calls made on
\* them (in all, and by the latest destroy()).
Events(sprite) ==
    [ parent |-> sprite,
      sig |-> [s \in SignalNames |->
                  IF s \in Range(FixedSignals) THEN Signal ELSE Null],
      disposeCount |-> [s \in SignalNames |-> 0],
      disposeLog |-> << >> ]

\* this.<name>.dispose() for each name in turn; reading dispose of a null
\* field throws and ends the call.
RECURSIVE DisposeEach(_, _)
DisposeEach(r, names) ==
    IF names = << >> \/ r.threw
    THEN r
    ELSE LET s == Head(names)
         IN IF r.hub.sig[s] = Null
            THEN [r EXCEPT !.threw = TRUE]
            ELSE DisposeEach(
                    [r EXCEPT !.hub.disposeCount[s] = @ + 1,
                              !.hub.disposeLog = Append(@, s)],
                    Tail(names))

\* destroy() without the animation group.
hubDestroy_skipsAnimation(h) ==
    LET r0 == [hub |-> [h EXCEPT !.parent = Null, !.disposeLog = << >>],
               threw |-> FALSE]
        r1 == DisposeEach(r0, FixedSignals)
        r2 == IF ~r1.threw /\ r1.hub.sig["onInputOver"] # Null
              THEN DisposeEach(r1, InputSignals)
              ELSE r1
    IN r2

\* destroy() as it would be if the input group were guarded by a member of
\* the animation group.
hubDestroy_checksWrongMember(h) ==
    LET r0 == [hub |-> [h EXCEPT !.parent = Null, !.disposeLog = << >>],
               threw |-> FALSE]
        r1 == DisposeEach(r0, FixedSignals)
        r2 == IF ~r1.threw /\ r1.hub.sig["onAnimationStart"] # Null
              THEN DisposeEach(r1, InputSignals)
              ELSE r1
        r3 == IF ~r2.threw /\ r2.hub.sig["onAnimationStart"] # Null
              THEN DisposeEach(r2, AnimationSignals)
              ELSE r2
    IN r3

\* destroy() as it would be if it nulled every signal it disposed.
hubDestroy_nullsSignals(h) ==
    LET r0 == [hub |-> [h EXCEPT !.parent = Null, !.disposeLog = << >>],
               threw |-> FALSE]
        r1 == DisposeEach(r0, FixedSignals)
        r2 == IF ~r1.threw /\ r1.hub.sig["onInputOver"] # Null
              THEN DisposeEach(r1, InputSignals)
              ELSE r1
        r3 == IF ~r2.threw /\ r2.hub.sig["onAnimationStart"] # Null
              THEN DisposeEach(r2, AnimationSignals)
              ELSE r2
    IN [r3 EXCEPT !.hub.sig = [s \in SignalNames |->
                                  IF s \in Range(r3.hub.disposeLog) THEN Null ELSE @[s]]]

\* Phaser.Events.prototype.destroy
hubDestroy(h) ==
    LET r0 == [hub |-> [h EXCEPT !.parent = Null, !.disposeLog = << >>],
               threw |-> FALSE]
        r1 == DisposeEach(r0, FixedSignals)
        r2 == IF ~r1.threw /\ r1.hub.sig["onInputOver"] # Null
              THEN DisposeEach(r1, InputSignals)
              ELSE r1
        r3 == IF ~r2.threw /\ r2.hub.sig["onAnimationStart"] # Null
              THEN DisposeEach(r2, AnimationSignals)
              ELSE r2
    IN r3

\* The input and animation collaborators create their group's signals
\* together, on first use.
enableInput(h) ==
    [h EXCEPT !.sig = [s \in SignalNames |->
                          IF s \in Range(InputSignals) THEN Signal ELSE @[s]]]
enableAnimation(h) ==
    [h EXCEPT !.sig = [s \in SignalNames |->
                          IF s \in Range(AnimationSignals) THEN Signal ELSE @[s]]]

----------------------------------------------------------------------------
(* The Text state machine *)

\* ticks: the update() calls on the existing node since the last write to
\* x, y or position (counted up to 2); contentChanges: the content writes
\* whose value differed from the value held; contentRepeats: whether some
\* content write gave the value held; destroys: the destroy() calls.
NoHist == [ticks |-> 0, contentChanges |-> 0, contentRepeats |-> FALSE, destroys |-> 0]

\* result: what a getter returned, when the operation is a getter.
NoResult == [angle |-> 0, content |-> "", font |-> EmptyString]
Op(name, n) ==
    [name |-> name, n |-> n, threw |-> FALSE, changed |-> FALSE, result |-> NoResult]
Min(a, b) == IF a < b THEN a ELSE b

\* The state after construction, for the constructor arguments drawn from
\* the given sets.
Constructed(xs, ys, ts, ss) ==
    /\ nodes \in [NodeIds -> {Text("game", ax, ay, at, as) :
                      ax \in xs, ay \in ys, at \in ts, as \in ss}]
    /\ hist = [n \in NodeIds |-> NoHist]
    /\ op = Op("construct", 0)
    /\ hub = Events("ownerX")
    /\ hubOp = [name |-> "construct", threw |-> FALSE, destroys |-> 0]

Init ==
    Constructed(NumArgs, NumArgs, {[def |-> TRUE, v |-> "hi"]}, {UndefinedStyle})

RenderInit ==
    Constructed({[def |-> FALSE, v |-> 0]}, {[def |-> FALSE, v |-> 0]},
                StrArgs, StyleArgs)

\* External writes to the public fields.
SetX(n, v) ==
    /\ nodes' = [nodes EXCEPT ![n].x = v]
    /\ hist' = [hist EXCEPT ![n].ticks = 0]
    /\ op' = [Op("set x", n) EXCEPT !.changed = (v # nodes[n].x)]
    /\ UNCHANGED <<hub, hubOp>>

SetY(n, v) ==
    /\ nodes' = [nodes EXCEPT ![n].y = v]
    /\ hist' = [hist EXCEPT ![n].ticks = 0]
    /\ op' = [Op("set y", n) EXCEPT !.changed = (v # nodes[n].y)]
    /\ UNCHANGED <<hub, hubOp>>

SetPositionX(n, v) ==
    /\ nodes' = [nodes EXCEPT ![n].position.x = v]
    /\ hist' = [hist EXCEPT ![n].ticks = 0]
    /\ op' = [Op("set position.x", n) EXCEPT !.changed = (v # nodes[n].position.x)]
    /\ UNCHANGED <<hub, hubOp>>

SetPositionY(n, v) ==
    /\ nodes' = [nodes EXCEPT ![n].position.y = v]
    /\ hist' = [hist EXCEPT ![n].ticks = 0]
    /\ op' = [Op("set position.y", n) EXCEPT !.changed = (v # nodes[n].position.y)]
    /\ UNCHANGED <<hub, hubOp>>

\* A group takes the node in and sets its back-reference.
SetGroup(n, g) ==
    /\ nodes[n].group = Null
    /\ nodes' = [nodes EXCEPT ![n].group = g]
    /\ op' = Op("group", n)
    /\ UNCHANGED <<hist, hub, hubOp>>

\* The canvas is appended to a display tree.
AttachCanvas(n) ==
    /\ nodes[n].canvas # Null
    /\ nodes[n].canvasParent = Null
    /\ nodes' = [nodes EXCEPT ![n].canvasParent = "dom"]
    /\ op' = Op("attach", n)
    /\ UNCHANGED <<hist, hub, hubOp>>

\* update() as it would run if all nodes held one cache object between them.
Update_sharedCache(n) ==
    /\ nodes' = [m \in DOMAIN nodes |->
                    IF m = n
                    THEN update(nodes[n])
                    ELSE [nodes[m] EXCEPT !._cache = update(nodes[n])._cache]]
    /\ hist' = [hist EXCEPT ![n].ticks = IF nodes[n].exists THEN Min(@ + 1, 2) ELSE @]
    /\ op' = Op("update", n)
    /\ UNCHANGED <<hub, hubOp>>

Update(n) ==
    /\ nodes' = [nodes EXCEPT ![n] = update(@)]
    /\ hist' = [hist EXCEPT ![n].ticks = IF nodes[n].exists THEN Min(@ + 1, 2) ELSE @]
    /\ op' = Op("update", n)
    /\ UNCHANGED <<hub, hubOp>>

Destroy(n) ==
    /\ hist[n].destroys < MaxDestroys
    /\ nodes' = [nodes EXCEPT ![n] = destroy(@).node]
    /\ hist' = [hist EXCEPT ![n].destroys = @ + 1]
    /\ op' = [Op("destroy", n) EXCEPT !.threw = destroy(nodes[n]).threw]
    /\ UNCHANGED <<hub, hubOp>>

GetAngle(n) ==
    /\ op' = [Op("get angle", n) EXCEPT !.result.angle = getAngle(nodes[n])]
    /\ UNCHANGED <<nodes, hist, hub, hubOp>>

GetContent(n) ==
    /\ op' = [Op("get content", n) EXCEPT !.result.content = getContent(nodes[n])]
    /\ UNCHANGED <<nodes, hist, hub, hubOp>>

GetFont(n) ==
    /\ op' = [Op("get font", n) EXCEPT !.result.font = getFont(nodes[n])]
    /\ UNCHANGED <<nodes, hist, hub, hubOp>>

SetAngle(n, v) ==
    /\ nodes' = [nodes EXCEPT ![n] = setAngle(@, v)]
    /\ op' = Op("angle", n)
    /\ UNCHANGED <<hist, hub, hubOp>>

SetContent(n, v) ==
    /\ nodes[n].setTextCalls < MaxCalls
    /\ nodes' = [nodes EXCEPT ![n] = setContent(@, v)]
    /\ hist' = [hist EXCEPT ![n].contentChanges =
                                IF v # nodes[n]._text THEN @ + 1 ELSE @,
                            ![n].contentRepeats = @ \/ v = nodes[n]._text]
    /\ op' = Op("content", n)
    /\ UNCHANGED <<hub, hubOp>>

SetFont(n, v) ==
    /\ nodes[n].setStyleCalls < MaxCalls
    /\ nodes' = [nodes EXCEPT ![n] = setFont(@, v)]
    /\ op' = Op("font", n)
    /\ UNCHANGED <<hist, hub, hubOp>>

\* Movement and the update tick, up to destruction.
Next ==
    \E n \in NodeIds :
        \/ \E v \in Coords : SetX(n, v)
        \/ \E v \in Coords : SetY(n, v)
        \/ \E v \in Coords : SetPositionX(n, v)
        \/ \E v \in Coords : SetPositionY(n, v)
        \/ Update(n)
        \/ Destroy(n)

Spec == Init /\ [][Next]_vars

\* The life cycle: the node joins a group, its canvas joins a display tree,
\* the node is destroyed.
LifeNext ==
    \E n \in NodeIds :
        \/ \E g \in Groups : SetGroup(n, g)
        \/ AttachCanvas(n)
        \/ \E v \in Coords : SetX(n, v)
        \/ Update(n)
        \/ Destroy(n)

LifeSpec == Init /\ [][LifeNext]_vars

\* The derived properties, between update ticks and up to destruction.
RenderNext ==
    \E n \in NodeIds :
        \/ GetAngle(n)
        \/ GetContent(n)
        \/ GetFont(n)
        \/ \E v \in Angles : SetAngle(n, v)
        \/ \E v \in Texts : SetContent(n, v)
        \/ \E v \in StyleValues : SetFont(n, v)
        \/ \E v \in Coords : SetX(n, v)
        \/ Update(n)
        \/ Destroy(n)

RenderSpec == RenderInit /\ [][RenderNext]_vars

\* Two nodes, updated by the scheduler in any order.
PairIds == {1, 2}

PairInit ==
    /\ nodes \in [PairIds -> {Text("game", ax, [def |-> FALSE, v |-> 0],
                                   [def |-> TRUE, v |-> "hi"], UndefinedStyle) :
                                  ax \in NumArgs}]
    /\ hist = [n \in PairIds |-> NoHist]
    /\ op = Op("construct", 0)
    /\ hub = Events("ownerX")
    /\ hubOp = [name |-> "construct", threw |-> FALSE, destroys |-> 0]

PairNext ==
    \E n \in PairIds :
        \/ \E v \in Coords : SetX(n, v)
        \/ Update(n)
        \/ Destroy(n)

PairSpec == PairInit /\ [][PairNext]_vars

\* Construction, with the arguments kept beside the node, and a first read
\* of content.
ConstructInit ==
    /\ nodes = << >>
    /\ hist = << >>
    /\ op = Op("none", 0)
    /\ hub = Events("ownerX")
    /\ hubOp = [name |-> "construct", threw |-> FALSE, destroys |-> 0]

Construct(ax, ay, at, as) ==
    /\ nodes = << >>
    /\ nodes' = [n \in NodeIds |-> Text("game", ax, ay, at, as)]
    /\ hist' = [n \in NodeIds |->
                   [args |-> [x |-> ax, y |-> ay, text |-> at, style |-> as]]]
    /\ op' = Op("construct", 0)
    /\ UNCHANGED <<hub, hubOp>>

ConstructNext ==
    \/ \E ax \in NumArgs, ay \in NumArgs, at \in StrArgs, as \in StyleArgs :
          Construct(ax, ay, at, as)
    \/ \E n \in DOMAIN nodes : GetContent(n)

ConstructSpec == ConstructInit /\ [][ConstructNext]_vars

----------------------------------------------------------------------------
(* The Events state machine *)

HubInit ==
    /\ nodes = << >>
    /\ hist = << >>
    /\ op = Op("none", 0)
    /\ hub \in {Events(o) : o \in Owners}
    /\ hubOp = [name |-> "construct", threw |-> FALSE, destroys |-> 0]

EnableInput ==
    /\ hub.sig["onInputOver"] = Null
    /\ hub' = enableInput(hub)
    /\ hubOp' = [hubOp EXCEPT !.name = "enableInput", !.threw = FALSE]
    /\ UNCHANGED <<nodes, hist, op>>

EnableAnimation ==
    /\ hub.sig["onAnimationStart"] = Null
    /\ hub' = enableAnimation(hub)
    /\ hubOp' = [hubOp EXCEPT !.name = "enableAnimation", !.threw = FALSE]
    /\ UNCHANGED <<nodes, hist, op>>

HubDestroy ==
    /\ hubOp.destroys < MaxHubDestroys
    /\ hub' = hubDestroy(hub).hub
    /\ hubOp' = [name |-> "destroy", threw |-> hubDestroy(hub).threw,
                 destroys |-> hubOp.destroys + 1]
    /\ UNCHANGED <<nodes, hist, op>>

HubNext == EnableInput \/ EnableAnimation \/ HubDestroy

HubSpec == HubInit /\ [][HubNext]_vars

----------------------------------------------------------------------------
(* update() *)

Moved(t) == t.position.x # t.x \/ t.position.y # t.y
MovedFromCache(t) == t.position.x # t._cache.x \/ t.position.y # t._cache.y

\* The step is update() on node n.
UpdateOf(n) == op'.name = "update" /\ op'.n = n

\* C1, as stated: after update() on an existing node, dirty is true if and
\* only if position differed from the x/y the cache held when the call began.
C1_DirtyIffPositionDiffersFromCache ==
    [][\A n \in NodeIds :
          (UpdateOf(n) /\ nodes[n].exists) =>
              (nodes'[n]._cache.dirty <=> MovedFromCache(nodes[n]))]_vars

\* C1, amended: after update() on an existing node, dirty is true if and
\* only if position differed from the node's own x/y when the call began.
C1_DirtyIffPositionDiffersFromXY ==
    [][\A n \in NodeIds :
          (UpdateOf(n) /\ nodes[n].exists) =>
              (nodes'[n]._cache.dirty <=> Moved(nodes[n]))]_vars

\* update() has just run on an existing node whose x had left its constructed
\* value, and has found position different from x/y.
C1_Witness ==
    \E n \in NodeIds :
        /\ op.name = "update" /\ op.n = n
        /\ nodes[n].exists
        /\ nodes[n]._cache.dirty
        /\ nodes[n].x # nodes[n]._cache.a02

\* C2, as stated: position.x (or position.y) is written to a new value v and
\* update() follows; then dirty is true and cache.x (cache.y) is v.
C2_PositionWriteIsSnapshotted ==
    [][\A n \in NodeIds :
          (UpdateOf(n) /\ nodes[n].exists /\ op.n = n /\ op.changed) =>
              /\ op.name = "set position.x" =>
                    /\ nodes'[n]._cache.dirty
                    /\ nodes'[n]._cache.x = nodes[n].position.x
              /\ op.name = "set position.y" =>
                    /\ nodes'[n]._cache.dirty
                    /\ nodes'[n]._cache.y = nodes[n].position.y]_vars

\* C2, amended: x (or y) is written to a new value v and update() follows;
\* then cache.x (cache.y) and position.x (position.y) are v, and dirty is true
\* if position differed from (x, y) when update() began.  After a write to
\* position.x (position.y) alone, update() leaves cache.x (cache.y) at x (y)
\* and puts position back there.
C2_XYWriteIsSnapshotted ==
    [][\A n \in NodeIds :
          (UpdateOf(n) /\ nodes[n].exists /\ op.n = n /\ op.changed) =>
              /\ op.name \in {"set x", "set position.x"} =>
                    /\ nodes'[n]._cache.x = nodes[n].x
                    /\ nodes'[n].position.x = nodes[n].x
                    /\ Moved(nodes[n]) => nodes'[n]._cache.dirty
              /\ op.name \in {"set y", "set position.y"} =>
                    /\ nodes'[n]._cache.y = nodes[n].y
                    /\ nodes'[n].position.y = nodes[n].y
                    /\ Moved(nodes[n]) => nodes'[n]._cache.dirty]_vars

\* update() has just carried a new x into the cache and into position.
C2_Witness ==
    \E n \in NodeIds :
        /\ op.name = "update" /\ op.n = n
        /\ nodes[n]._cache.dirty
        /\ nodes[n]._cache.x = MaxCoord
        /\ nodes[n].position.x = MaxCoord
        /\ nodes[n]._cache.a02 = 0

\* C3: update() on a node with exists = false changes nothing of the node.
C3_UpdateOfDestroyedIsNoOp ==
    [][\A n \in NodeIds :
          (UpdateOf(n) /\ ~nodes[n].exists) => nodes'[n] = nodes[n]]_vars

\* update() has just run on a destroyed node whose position differs from
\* its x/y and from its cache.
C3_Witness ==
    \E n \in NodeIds :
        /\ op.name = "update" /\ op.n = n
        /\ ~nodes[n].exists
        /\ Moved(nodes[n])
        /\ MovedFromCache(nodes[n])
        /\ ~nodes[n]._cache.dirty

\* C4: dirty is of the current tick only.  update() on an existing node
\* leaves dirty false whenever position equals x/y, whatever dirty was, and
\* an update() that follows another with no write to x, y or position in
\* between leaves dirty false.
C4_DirtyIsPerTick ==
    [][\A n \in NodeIds :
          (UpdateOf(n) /\ nodes[n].exists) =>
              /\ ~Moved(nodes[n]) => ~nodes'[n]._cache.dirty
              /\ hist[n].ticks >= 1 => ~nodes'[n]._cache.dirty]_vars

\* The second of two update() calls with no write between them has run, on
\* a node that had moved before the first.
C4_Witness ==
    \E n \in NodeIds :
        /\ op.name = "update" /\ op.n = n
        /\ nodes[n].exists
        /\ hist[n].ticks = 2
        /\ ~nodes[n]._cache.dirty
        /\ nodes[n]._cache.x # nodes[n]._cache.a02

\* C17: update() on an existing node leaves x and y alone and ends with
\* position, x/y and cache.x/y equal: the snapshot is taken from x/y, so a
\* write to position alone is undone and a write to x/y alone is carried into
\* position.
C17_UpdateSettlesOnXY ==
    [][\A n \in NodeIds :
          (UpdateOf(n) /\ nodes[n].exists) =>
              /\ nodes'[n].x = nodes[n].x
              /\ nodes'[n].y = nodes[n].y
              /\ nodes'[n].position = Point(nodes[n].x, nodes[n].y)
              /\ nodes'[n]._cache.x = nodes[n].x
              /\ nodes'[n]._cache.y = nodes[n].y]_vars

\* update() has just undone a write to position: dirty is set, and position
\* is back at the x/y of construction.
C17_Witness ==
    \E n \in NodeIds :
        /\ op.name = "update" /\ op.n = n
        /\ nodes[n].exists
        /\ nodes[n]._cache.dirty
        /\ nodes[n].position = Point(nodes[n].x, nodes[n].y)
        /\ nodes[n].x = nodes[n]._cache.a02
        /\ nodes[n].y = nodes[n]._cache.a12
        /\ nodes[n]._cache.x = nodes[n].x
        /\ nodes[n]._cache.y = nodes[n].y

----------------------------------------------------------------------------
(* content and font *)

\* C5: a content write of the value held makes no setText call and leaves
\* _text alone; a write of another value makes one setText call, with that
\* value, and stores it in _text; so the setText calls made so far are as
\* many as the writes whose value differed from the value held.
C5_ContentRerendersOnChangeOnly ==
    [][\A n \in NodeIds : \A v \in Texts :
          SetContent(n, v) =>
              /\ IF v = nodes[n]._text
                 THEN /\ nodes'[n].setTextCalls = nodes[n].setTextCalls
                      /\ nodes'[n]._text = nodes[n]._text
                      /\ nodes'[n].surfaceText = nodes[n].surfaceText
                 ELSE /\ nodes'[n].setTextCalls = nodes[n].setTextCalls + 1
                      /\ nodes'[n]._text = v
                      /\ nodes'[n].surfaceText = v
              /\ nodes'[n].setTextCalls = hist'[n].contentChanges]_vars

\* content has just been written, after one write that changed the text and
\* one that repeated it.
C5_Witness ==
    \E n \in NodeIds :
        /\ op.name = "content" /\ op.n = n
        /\ nodes[n].setTextCalls = 1
        /\ hist[n].contentChanges = 1
        /\ hist[n].contentRepeats

\* C6: a font write of a style equal by value to the one held (a distinct
\* object with the same contents included) makes no setStyle call; a write of
\* a style that differs by value makes one setStyle call, with that style.
C6_FontRestylesOnValueChangeOnly ==
    [][\A n \in NodeIds : \A v \in StyleValues :
          SetFont(n, v) =>
              IF SameStyleValue(v, nodes[n]._style)
              THEN nodes'[n].setStyleCalls = nodes[n].setStyleCalls
              ELSE /\ nodes'[n].setStyleCalls = nodes[n].setStyleCalls + 1
                   /\ nodes'[n].surfaceStyle = v]_vars

\* C18: the text the rendering surface was last given (by the constructor or
\* by setText) is _text, the style it was last given (by the constructor or
\* by setStyle) is _style, and a read of content or font returns them.
C18_SurfaceFollowsTextAndStyle ==
    \A n \in NodeIds :
        /\ nodes[n].surfaceText = nodes[n]._text
        /\ nodes[n].surfaceStyle = nodes[n]._style
        /\ (op.name = "get content" /\ op.n = n) =>
              (op.result.content = nodes[n]._text
                  /\ op.result.content = nodes[n].surfaceText)
        /\ (op.name = "get font" /\ op.n = n) =>
              (op.result.font = nodes[n]._style
                  /\ op.result.font = nodes[n].surfaceStyle)

\* content has just been read, after writes that changed the text and the
\* style.
C18_Witness ==
    \E n \in NodeIds :
        /\ op.name = "get content" /\ op.n = n
        /\ op.result.content = "bye"
        /\ nodes[n].setTextCalls >= 1
        /\ nodes[n].setStyleCalls >= 1
        /\ nodes[n].surfaceStyle \in StyleObjects

----------------------------------------------------------------------------
(* Events.destroy() *)

InputEnabled(h) == \A s \in Range(InputSignals) : h.sig[s] # Null
AnimationEnabled(h) == \A s \in Range(AnimationSignals) : h.sig[s] # Null
InputAbsent(h) == \A s \in Range(InputSignals) : h.sig[s] = Null
AnimationAbsent(h) == \A s \in Range(AnimationSignals) : h.sig[s] = Null

\* The signals the latest destroy() called dispose on, and how many calls.
Disposed(h) == Range(h.disposeLog)
DisposeCalls(h) == Len(h.disposeLog)

\* C7, as stated: destroy() calls dispose on exactly 5 signals when neither
\* optional group was enabled and on exactly 11 when both were.
C7_DisposesFiveOrEleven ==
    hubOp.name = "destroy" =>
        /\ (InputAbsent(hub) /\ AnimationAbsent(hub)) =>
              (DisposeCalls(hub) = 5 /\ Cardinality(Disposed(hub)) = 5)
        /\ (InputEnabled(hub) /\ AnimationEnabled(hub)) =>
              (DisposeCalls(hub) = 11 /\ Cardinality(Disposed(hub)) = 11)

\* C7, amended: destroy() calls dispose on exactly 5 signals when neither
\* optional group was enabled and on exactly 14 (5 fixed, 6 input, 3
\* animation) when both were.
C7_DisposesFiveOrFourteen ==
    hubOp.name = "destroy" =>
        /\ (InputAbsent(hub) /\ AnimationAbsent(hub)) =>
              (DisposeCalls(hub) = 5 /\ Cardinality(Disposed(hub)) = 5)
        /\ (InputEnabled(hub) /\ AnimationEnabled(hub)) =>
              (DisposeCalls(hub) = 14 /\ Cardinality(Disposed(hub)) = 14)

\* destroy() has just run on a hub with both groups enabled.
C7_Witness ==
    /\ hubOp.name = "destroy"
    /\ InputEnabled(hub) /\ AnimationEnabled(hub)
    /\ Disposed(hub) = SignalNames

\* C8: whichever optional groups were enabled, the first destroy() does not
\* throw, leaves parent null, disposes the five fixed signals, disposes the
\* six input signals if and only if the input group was created, and the
\* three animation signals if and only if the animation group was created.
C8_FirstDestroyDisposesWhatExists ==
    (hubOp.name = "destroy" /\ hubOp.destroys = 1) =>
        /\ ~hubOp.threw
        /\ hub.parent = Null
        /\ Range(FixedSignals) \subseteq Disposed(hub)
        /\ \A s \in Range(InputSignals) :
              /\ s \in Disposed(hub) <=> InputEnabled(hub)
              /\ hub.disposeCount[s] = IF InputEnabled(hub) THEN 1 ELSE 0
        /\ \A s \in Range(AnimationSignals) :
              /\ s \in Disposed(hub) <=> AnimationEnabled(hub)
              /\ hub.disposeCount[s] = IF AnimationEnabled(hub) THEN 1 ELSE 0
        /\ \A s \in Range(FixedSignals) : hub.disposeCount[s] = 1

\* The first destroy() has just run on a hub with the input group only.
C8_Witness ==
    /\ hubOp.name = "destroy" /\ hubOp.destroys = 1
    /\ InputEnabled(hub) /\ AnimationAbsent(hub)
    /\ hub.disposeCount["onDragStop"] = 1
    /\ hub.parent = Null

\* C9: each optional group is all or nothing in every state, and right after
\* construction the five fixed signals are present and the nine optional
\* ones are null.
C9_GroupsAreAllOrNothing ==
    /\ InputEnabled(hub) \/ InputAbsent(hub)
    /\ AnimationEnabled(hub) \/ AnimationAbsent(hub)
    /\ hubOp.name = "construct" =>
          /\ \A s \in Range(FixedSignals) : hub.sig[s] # Null
          /\ InputAbsent(hub) /\ AnimationAbsent(hub)
          /\ Cardinality(Range(InputSignals) \cup Range(AnimationSignals)) = 9

\* A hub destroyed with one group present and the other absent.
C9_Witness ==
    /\ hubOp.name = "destroy"
    /\ AnimationEnabled(hub) /\ InputAbsent(hub)
    /\ hub.parent = Null

\* The step is destroy() on the hub.
HubDestroyStep == hubOp'.name = "destroy" /\ hubOp'.destroys = hubOp.destroys + 1

\* C19: destroy() clears parent and no signal field, and calls dispose once
\* on every signal that is present; so a destroy() that follows a destroy()
\* disposes the same signals again, in the same order.
C19_DestroyClearsOnlyParent ==
    [][HubDestroyStep =>
          /\ ~hubOp'.threw
          /\ hub'.parent = Null
          /\ hub'.sig = hub.sig
          /\ \A s \in SignalNames :
                hub'.disposeCount[s] =
                    hub.disposeCount[s] + (IF hub.sig[s] # Null THEN 1 ELSE 0)
          /\ Disposed(hub') = {s \in SignalNames : hub.sig[s] # Null}
          /\ hubOp.name = "destroy" => hub'.disposeLog = hub.disposeLog]_vars

\* A second destroy() has just disposed the input signals a second time.
C19_Witness ==
    /\ hubOp.name = "destroy" /\ hubOp.destroys = 2
    /\ InputEnabled(hub) /\ AnimationAbsent(hub)
    /\ hub.disposeCount["onInputOver"] = 2
    /\ hub.disposeCount["onKilled"] = 2
    /\ DisposeCalls(hub) = 11

----------------------------------------------------------------------------
(* Text.destroy() *)

\* C10: destroy() on a live node calls group.remove(node) once if group is
\* set, while exists is still true and group still set, and not at all if
\* group is null; either way it returns with exists false and group null.
C10_DestroyDetachesThenClears ==
    [][\A n \in NodeIds :
          (op'.name = "destroy" /\ op'.n = n /\ nodes[n].exists) =>
              /\ ~op'.threw
              /\ ~nodes'[n].exists
              /\ nodes'[n].group = Null
              /\ nodes'[n].removeCalls =
                    IF nodes[n].group # Null
                    THEN Append(nodes[n].removeCalls,
                                [receiver |-> nodes[n].group,
                                 exists |-> TRUE,
                                 group |-> nodes[n].group])
                    ELSE nodes[n].removeCalls]_vars

\* destroy() has just run on a node that was in a group.
C10_Witness ==
    \E n \in NodeIds :
        /\ op.name = "destroy" /\ op.n = n /\ ~op.threw
        /\ hist[n].destroys = 1
        /\ Len(nodes[n].removeCalls) = 1
        /\ ~nodes[n].exists
        /\ nodes[n].group = Null

\* The step is destroy() on node n.
DestroyOf(n) == op'.name = "destroy" /\ op'.n = n

\* C11: destroy() releases the canvas and its context exactly when the
\* canvas has no parent; when it has one, destroy() asks the parent to remove
\* the canvas and leaves canvas and context in place.
C11_ReleasesUnlessAttached ==
    [][\A n \in NodeIds :
          (DestroyOf(n) /\ nodes[n].canvas # Null) =>
              IF nodes[n].canvasParent = Null
              THEN /\ nodes'[n].canvas = Null
                   /\ nodes'[n].context = Null
                   /\ nodes'[n].removeChildCalls = nodes[n].removeChildCalls
              ELSE /\ nodes'[n].removeChildCalls = nodes[n].removeChildCalls + 1
                   /\ nodes'[n].canvas # Null
                   /\ nodes'[n].context # Null]_vars

\* destroy() has just run on a node whose canvas was in a display tree.
C11_Witness ==
    \E n \in NodeIds :
        /\ op.name = "destroy" /\ op.n = n /\ ~op.threw
        /\ hist[n].destroys = 1
        /\ nodes[n].removeChildCalls = 1
        /\ nodes[n].canvas # Null
        /\ nodes[n].context # Null

\* C12, as stated: every destroy() that follows a destroy() throws.
C12_SecondDestroyThrows ==
    [][\A n \in NodeIds :
          (DestroyOf(n) /\ hist[n].destroys >= 1) => op'.threw]_vars

\* C12, amended: the first destroy() does not throw, and the second throws
\* if and only if the first released the canvas, that is, found it without a
\* parent; after a first destroy() that found the canvas in a display tree,
\* the second returns normally with the canvas released or detached again.
C12_SecondDestroyThrowsIfReleased ==
    [][\A n \in NodeIds :
          DestroyOf(n) =>
              /\ hist[n].destroys = 0 => ~op'.threw
              /\ hist[n].destroys = 1 =>
                    /\ op'.threw <=> nodes[n].removeChildCalls = 0
                    /\ op'.threw <=> nodes[n].canvas = Null
                    /\ ~op'.threw =>
                          \/ nodes'[n].canvas = Null
                          \/ nodes'[n].removeChildCalls = 2]_vars

\* The second destroy() has just thrown.
C12_Witness ==
    \E n \in NodeIds :
        /\ op.name = "destroy" /\ op.n = n /\ op.threw
        /\ hist[n].destroys = 2
        /\ nodes[n].canvas = Null

----------------------------------------------------------------------------
(* exists *)

\* C13: exists is true after construction; a destroy() that returns leaves
\* it false; no operation of the node (update, destroy, the angle, content
\* and font getters and setters) makes it true again; and update() on the
\* destroyed node changes nothing.
C13_ExistsIsOneWay ==
    [][\A n \in NodeIds :
          /\ op.name = "construct" => nodes[n].exists
          /\ (DestroyOf(n) /\ ~op'.threw) => ~nodes'[n].exists
          /\ ~nodes[n].exists => ~nodes'[n].exists
          /\ (UpdateOf(n) /\ ~nodes[n].exists) => nodes'[n] = nodes[n]]_vars

\* update() has just run on a destroyed node whose x had been written after
\* its destruction and whose content had been set.
C13_Witness ==
    \E n \in NodeIds :
        /\ op.name = "update" /\ op.n = n
        /\ ~nodes[n].exists
        /\ hist[n].destroys >= 1
        /\ nodes[n].setTextCalls >= 1
        /\ nodes[n].x # nodes[n]._cache.x

----------------------------------------------------------------------------
(* Construction *)

\* An argument's value, with the default taken when it was omitted.
Given(a, d) == IF a.def THEN a.v ELSE d

\* C14: the constructor rejects no input and, with an omitted x or y taken
\* as 0 and an omitted text as "", gives position (x, y), cache.x = x,
\* cache.y = y, dirty false, the matrix fields a00 = 1, a01 = 0, a10 = 0,
\* a11 = 1, a02 = x, a12 = y, id = 1, scale (1, 1), anchor (0, 0), exists
\* true, group null, and a content that reads back the text given.
C14_ConstructorSeedsTheNode ==
    \A n \in DOMAIN nodes :
        LET t == nodes[n]
            x == Given(hist[n].args.x, 0)
            y == Given(hist[n].args.y, 0)
            text == Given(hist[n].args.text, "")
        IN /\ ~op.threw
           /\ t.position = Point(x, y)
           /\ t._cache.x = x /\ t._cache.y = y
           /\ t._cache.dirty = FALSE
           /\ t._cache.a00 = 1 /\ t._cache.a01 = 0
           /\ t._cache.a10 = 0 /\ t._cache.a11 = 1
           /\ t._cache.a02 = x /\ t._cache.a12 = y
           /\ t._cache.id = 1
           /\ t.scale = Point(1, 1)
           /\ t.anchor = Point(0, 0)
           /\ t.exists
           /\ t.group = Null
           /\ getContent(t) = text
           /\ op.name = "get content" => op.result.content = text

\* A node constructed without x and without text, at a y other than 0, whose
\* content has been read.
C14_Witness ==
    \E n \in DOMAIN nodes :
        /\ op.name = "get content"
        /\ ~hist[n].args.x.def
        /\ ~hist[n].args.text.def
        /\ hist[n].args.y.def /\ hist[n].args.y.v = MaxCoord
        /\ nodes[n]._cache.y = MaxCoord

----------------------------------------------------------------------------
(* The cache *)

\* C15: only update() writes the cache, and of the cache only dirty, x and
\* y: every other operation (destroy, the angle, content and font setters
\* and getters, a write to x) leaves the cache as it was, and across update()
\* the matrix fields and the scale fields keep the values of construction.
C15_CacheWrittenOnlyByUpdate ==
    [][\A n \in NodeIds :
          LET c == nodes[n]._cache
              d == nodes'[n]._cache
          IN /\ IF UpdateOf(n)
                THEN d = [c EXCEPT !.dirty = d.dirty, !.x = d.x, !.y = d.y]
                ELSE d = c
             /\ d.a00 = 1 /\ d.a01 = 0 /\ d.a10 = 0 /\ d.a11 = 1 /\ d.id = 1
             /\ d.scaleX = 1 /\ d.scaleY = 1
             /\ d.a02 = c.a02 /\ d.a12 = c.a12]_vars

\* update() has just carried a new x into cache.x, away from the translation
\* the cache was constructed with, on a node whose content, font and angle
\* had been set.
C15_Witness ==
    \E n \in NodeIds :
        /\ op.name = "update" /\ op.n = n
        /\ nodes[n]._cache.dirty
        /\ nodes[n]._cache.x # nodes[n]._cache.a02
        /\ nodes[n].setTextCalls >= 1
        /\ nodes[n].setStyleCalls >= 1
        /\ nodes[n].rotation # 0

----------------------------------------------------------------------------
(* Two nodes *)

\* C16: update() on one node leaves every other node as it was (its cache
\* with dirty, its position, its exists), and the dirty it leaves on its own
\* node is decided by that node's position and x/y alone.
C16_NodesShareNoCache ==
    [][\A n \in PairIds :
          UpdateOf(n) =>
              /\ \A m \in PairIds \ {n} : nodes'[m] = nodes[m]
              /\ nodes[n].exists =>
                    (nodes'[n]._cache.dirty <=> Moved(nodes[n]))]_vars

\* update() has just found node 2 moved while node 1, updated before it,
\* keeps another cache.x and a dirty of its own.
C16_Witness ==
    /\ op.name = "update" /\ op.n = 2
    /\ nodes[2]._cache.dirty
    /\ ~nodes[1]._cache.dirty
    /\ hist[1].ticks = 2
    /\ nodes[1]._cache.x # nodes[2]._cache.x

=============================================================================
